---- MODULE Spec2Model ----
(***************************************************************************)
(* Model of the todo HTTP service (wesley-lewis/todo-list-golang).         *)
(*                                                                         *)
(* The repository holds two builds of the same program: src/main.go and    *)
(* src/unnamed/part_000.  They differ in the response messages, in the     *)
(* bson name of the creation timestamp and in the tail of updateTodo.      *)
(* The variable "variant" says which build is running.                     *)
(*                                                                         *)
(* The collection is the mgo collection db.C("todo"): a sequence of        *)
(* documents in storage order.  A document is a record whose fields are    *)
(* the bson fields it really has, so a document written by Insert has      *)
(* created_at and a document written by Update (a replacement document     *)
(* without update operators) has not.                                      *)
(***************************************************************************)
EXTENDS Integers, Sequences, FiniteSets, TLC

VARIABLES variant, coll, objectIdCounter, clock, last, resp, reqs

vars == <<variant, coll, objectIdCounter, clock, last, resp, reqs>>

(***************************************************************************)
(* Bounds of the model.                                                    *)
(***************************************************************************)
MaxObjectIds == 2
MaxClock == 2
MaxInFlight == 3

Variants == {"main.go", "part_000"}

(***************************************************************************)
(* Strings that the code inspects character by character (the id of the    *)
(* path) are sequences of one-character strings.                           *)
(***************************************************************************)
LowerHex == <<"0","1","2","3","4","5","6","7","8","9","a","b","c","d","e","f">>
UpperHex == <<"0","1","2","3","4","5","6","7","8","9","A","B","C","D","E","F">>

Range(s) == {s[i] : i \in DOMAIN s}

HexChars == Range(LowerHex) \cup Range(UpperHex)

IsHexChar(ch) == ch \in HexChars

\* the value of each hex digit, as encoding/hex reads it
HexValues ==
    [ch \in HexChars |-> (CHOOSE i \in 1..16 : LowerHex[i] = ch \/ UpperHex[i] = ch) - 1]

HexVal(ch) == HexValues[ch]

IsSpace(ch) == ch \in {" ", "\t", "\n", "\r"}

RECURSIVE TrimLeft(_)
TrimLeft(s) == IF s # <<>> /\ IsSpace(Head(s)) THEN TrimLeft(Tail(s)) ELSE s

RECURSIVE TrimRight(_)
TrimRight(s) ==
    IF s # <<>> /\ IsSpace(s[Len(s)]) THEN TrimRight(SubSeq(s, 1, Len(s) - 1)) ELSE s

\* strings.TrimSpace
TrimSpace(s) == TrimRight(TrimLeft(s))

\* bson.IsObjectIdHex: 24 characters that hex.DecodeString accepts
IsObjectIdHex(s) == Len(s) = 24 /\ \A i \in 1..Len(s) : IsHexChar(s[i])

\* bson.ObjectIdHex: the 12 bytes the 24 hex digits encode
ObjectIdHex(s) == [i \in 1..12 |-> 16 * HexVal(s[2 * i - 1]) + HexVal(s[2 * i])]

\* bson.ObjectId.Hex: 24 lower-case hex digits
Hex(oid) ==
    [i \in 1..(2 * Len(oid)) |->
        IF i % 2 = 1 THEN LowerHex[(oid[(i + 1) \div 2] \div 16) + 1]
                     ELSE LowerHex[(oid[i \div 2] % 16) + 1]]

\* a NewObjectId that leaves the counter out of the id
NewObjectIdNoCounter(now, ctr) ==
    << (now \div 16777216) % 256, (now \div 65536) % 256, (now \div 256) % 256, now % 256,
       171, 205, 239,
       18, 52,
       0, 0, 0 >>

\* bson.NewObjectId: 4 bytes of seconds, 3 of machine id, 2 of process id,
\* 3 of the process-wide counter after its atomic increment (ctr).
NewObjectId(now, ctr) ==
    << (now \div 16777216) % 256, (now \div 65536) % 256, (now \div 256) % 256, now % 256,
       171, 205, 239,
       18, 52,
       (ctr \div 65536) % 256, (ctr \div 256) % 256, ctr % 256 >>

\* time.Time{}: what a todoModel holds when the document has no timestamp
ZeroTime == 0

(***************************************************************************)
(* The persistence collaborator (mgo).  Every call returns the error and   *)
(* the collection after the call.  up = FALSE is a call that fails for a   *)
(* reason of the infrastructure (socket, server).                          *)
(***************************************************************************)
ErrNone == "nil"
ErrNotFound == "not found"
ErrDuplicate == "duplicate key"
ErrIO == "io"

IndexOf(c, oid) ==
    IF \E i \in 1..Len(c) : c[i]._id = oid
    THEN CHOOSE i \in 1..Len(c) : c[i]._id = oid /\ \A j \in 1..(i - 1) : c[j]._id # oid
    ELSE 0

\* a removal that also drops what is stored after the document
RemoveAtTruncates(c, i) == SubSeq(c, 1, i - 1)

RemoveAt(c, i) == SubSeq(c, 1, i - 1) \o SubSeq(c, i + 1, Len(c))

\* Collection.Find(bson.M{}).All
Find(c, up) == IF up THEN [err |-> ErrNone, docs |-> c] ELSE [err |-> ErrIO, docs |-> <<>>]

\* Collection.Insert
Insert(c, doc, up) ==
    IF ~up THEN [err |-> ErrIO, coll |-> c]
    ELSE IF IndexOf(c, doc._id) # 0 THEN [err |-> ErrDuplicate, coll |-> c]
    ELSE [err |-> ErrNone, coll |-> Append(c, doc)]

\* an Update that writes the title and leaves the rest of the document
UpdateTitleOnly(c, oid, title, completed, up) ==
    IF ~up THEN [err |-> ErrIO, coll |-> c]
    ELSE IF IndexOf(c, oid) = 0 THEN [err |-> ErrNotFound, coll |-> c]
    ELSE [err |-> ErrNone, coll |-> [c EXCEPT ![IndexOf(c, oid)].title = title]]

\* an Update that inserts the document when nothing matches (an upsert)
UpdateUpserts(c, oid, title, completed, up) ==
    IF ~up THEN [err |-> ErrIO, coll |-> c]
    ELSE IF IndexOf(c, oid) = 0
    THEN [err |-> ErrNone,
          coll |-> Append(c, [_id |-> oid, title |-> title, completed |-> completed])]
    ELSE [err |-> ErrNone,
          coll |-> [c EXCEPT ![IndexOf(c, oid)] =
                        [_id |-> oid, title |-> title, completed |-> completed]]]

\* Collection.Update(bson.M{"_id": oid}, bson.M{"title": .., "completed": ..}):
\* the update document has no $-operator, so the server replaces the matched
\* document by it, keeping only _id; no match is ErrNotFound.
Update(c, oid, title, completed, up) ==
    IF ~up THEN [err |-> ErrIO, coll |-> c]
    ELSE IF IndexOf(c, oid) = 0 THEN [err |-> ErrNotFound, coll |-> c]
    ELSE [err |-> ErrNone,
          coll |-> [c EXCEPT ![IndexOf(c, oid)] =
                        [_id |-> oid, title |-> title, completed |-> completed]]]

\* Collection.RemoveId: no match is ErrNotFound
RemoveId(c, oid, up) ==
    IF ~up THEN [err |-> ErrIO, coll |-> c]
    ELSE IF IndexOf(c, oid) = 0 THEN [err |-> ErrNotFound, coll |-> c]
    ELSE [err |-> ErrNone, coll |-> RemoveAt(c, IndexOf(c, oid))]

(***************************************************************************)
(* Data mapper.                                                            *)
(***************************************************************************)
\* bson encoding of a todoModel: the timestamp is stored as "createdAt" by
\* main.go and as "created_at" by part_000
bsonDoc(v, tm) ==
    IF v = "main.go"
    THEN [_id |-> tm.ID, title |-> tm.Title, completed |-> tm.Completed,
          createdAt |-> tm.CreatedAt]
    ELSE [_id |-> tm.ID, title |-> tm.Title, completed |-> tm.Completed,
          created_at |-> tm.CreatedAt]

\* bson decoding of a stored document into a todoModel: a field the document
\* does not have leaves the zero value
todoModel(v, doc) ==
    [ID |-> doc._id,
     Title |-> IF "title" \in DOMAIN doc THEN doc.title ELSE "",
     Completed |-> IF "completed" \in DOMAIN doc THEN doc.completed ELSE FALSE,
     CreatedAt |-> IF v = "main.go"
                   THEN (IF "createdAt" \in DOMAIN doc THEN doc.createdAt ELSE ZeroTime)
                   ELSE (IF "created_at" \in DOMAIN doc THEN doc.created_at ELSE ZeroTime)]

\* the external representation built by the loop of fetchTodos
todo(tm) ==
    [id |-> Hex(tm.ID), title |-> tm.Title, completed |-> tm.Completed,
     created_at |-> tm.CreatedAt]

\* A JSON timestamp is an integer; a negative one stands for a string that
\* time.Time's UnmarshalJSON rejects.
IsRFC3339(v) == v >= 0

\* json.NewDecoder(r.Body).Decode(&t): absent fields keep their zero value
Decode(body) ==
    IF ~body.json THEN [err |-> TRUE, t |-> [Title |-> "", Completed |-> FALSE]]
    ELSE IF "created_at" \in DOMAIN body.obj /\ ~IsRFC3339(body.obj.created_at)
    THEN [err |-> TRUE, t |-> [Title |-> "", Completed |-> FALSE]]
    ELSE [err |-> FALSE,
          t |-> [Title |-> IF "title" \in DOMAIN body.obj THEN body.obj.title ELSE "",
                 Completed |-> IF "completed" \in DOMAIN body.obj
                               THEN body.obj.completed ELSE FALSE]]

(***************************************************************************)
(* Responses: what rnd.JSON(w, status, payload) wrote.                     *)
(***************************************************************************)
StatusOK == 200
StatusCreated == 201
StatusBadRequest == 400
StatusProcessing == 102

NoResponse ==
    [written |-> FALSE, status |-> 0, message |-> "", error |-> FALSE,
     todo_id |-> <<>>, data |-> <<>>]

JSON(status, message, error) ==
    [written |-> TRUE, status |-> status, message |-> message, error |-> error,
     todo_id |-> <<>>, data |-> <<>>]

NoCall == "none"

(***************************************************************************)
(* Request handlers, as functions of the collection and the request.  Each *)
(* returns the collection after the handler, the response it wrote and the *)
(* persistence call it issued.                                             *)
(***************************************************************************)
Outcome(c, r, call) == [coll |-> c, resp |-> r, call |-> call]

\* fetchTodos
fetchTodosOut(v, c, up) ==
    LET f == Find(c, up) IN
    IF f.err # ErrNone
    THEN Outcome(c, JSON(StatusProcessing, "Failed to fetch todo", TRUE), "Find")
    ELSE Outcome(c, [JSON(StatusOK, "", FALSE) EXCEPT
                        !.data = [i \in 1..Len(f.docs) |-> todo(todoModel(v, f.docs[i]))]],
                 "Find")

\* a validation that lets every title through
TitleNeverMissing(t) == FALSE

\* the validation of the title: if t.Title == ""
TitleMissing(t) == t.Title = ""

\* TRUE when createTodo gets past its validation and builds a todoModel
createTodoBuilds(body) == ~Decode(body).err /\ ~TitleMissing(Decode(body).t)

\* the response of createTodo after the Insert call returned err
createTodoResponse(err, tm) ==
    IF err # ErrNone THEN JSON(StatusProcessing, "Failed to save todo", TRUE)
    ELSE [JSON(StatusCreated, "Todo created successfully", FALSE) EXCEPT
             !.todo_id = Hex(tm.ID)]

\* createTodo, with the values bson.NewObjectId() and time.Now() returned
createTodoOut(v, c, oid, now, body, up) ==
    LET d == Decode(body) IN
    IF d.err THEN Outcome(c, JSON(StatusProcessing, "", TRUE), NoCall)
    ELSE IF TitleMissing(d.t)
    THEN Outcome(c, JSON(StatusBadRequest,
                         IF v = "main.go" THEN "The title is required"
                                          ELSE "The title field is important", FALSE),
                 NoCall)
    ELSE LET tm == [ID |-> oid, Title |-> d.t.Title, Completed |-> FALSE, CreatedAt |-> now]
             ins == Insert(c, bsonDoc(v, tm), up)
         IN Outcome(ins.coll, createTodoResponse(ins.err, tm), "Insert")

\* an invalid id answered with the processing status
InvalidIdResponseProcessing(v) ==
    JSON(StatusProcessing, IF v = "main.go" THEN "The ID is invalid" ELSE "The id is invalid",
         FALSE)

InvalidIdResponse(v) ==
    JSON(StatusBadRequest, IF v = "main.go" THEN "The ID is invalid" ELSE "The id is invalid",
         FALSE)

\* the response of updateTodo after the Update call returned err
updateTodoResponse(v, err) ==
    IF err # ErrNone
    THEN JSON(StatusProcessing, "Failed to update todo", v # "main.go")
    ELSE IF v = "main.go" THEN NoResponse
    ELSE JSON(StatusOK, "Todo updated successfully", FALSE)

\* updateTodo
updateTodoOut(v, c, id, body, up) ==
    LET d == Decode(body) IN
    IF ~IsObjectIdHex(TrimSpace(id)) THEN Outcome(c, InvalidIdResponse(v), NoCall)
    ELSE IF d.err THEN Outcome(c, JSON(StatusProcessing, "", TRUE), NoCall)
    ELSE IF TitleMissing(d.t)
    THEN Outcome(c, JSON(StatusBadRequest,
                         IF v = "main.go" THEN "The Title field is required"
                                          ELSE "The title field is required", FALSE),
                 NoCall)
    ELSE LET upd == Update(c, ObjectIdHex(TrimSpace(id)), d.t.Title, d.t.Completed, up)
         IN Outcome(upd.coll, updateTodoResponse(v, upd.err), "Update")

\* a deleteTodo that does not look at the error of RemoveId
deleteTodoResponseIgnoresErr(err) == JSON(StatusOK, "Todo deleted successfully", FALSE)

\* the response of deleteTodo after the RemoveId call returned err
deleteTodoResponse(err) ==
    IF err # ErrNone THEN JSON(StatusProcessing, "Failed to delete todo", TRUE)
    ELSE JSON(StatusOK, "Todo deleted successfully", FALSE)

\* deleteTodo
deleteTodoOut(v, c, id, up) ==
    IF ~IsObjectIdHex(TrimSpace(id)) THEN Outcome(c, InvalidIdResponse(v), NoCall)
    ELSE LET rem == RemoveId(c, ObjectIdHex(TrimSpace(id)), up)
         IN Outcome(rem.coll, deleteTodoResponse(rem.err), "RemoveId")

(***************************************************************************)
(* Requests the model sends.                                               *)
(***************************************************************************)
NotJson == [json |-> FALSE]

Bodies ==
    {NotJson,
     [json |-> TRUE, obj |-> [completed |-> TRUE]],
     [json |-> TRUE, obj |-> [title |-> "", completed |-> TRUE]],
     [json |-> TRUE, obj |-> [title |-> "a"]],
     [json |-> TRUE, obj |-> [title |-> "a", created_at |-> -1]],
     [json |-> TRUE,
      obj |-> [id |-> "x", title |-> "b", completed |-> TRUE, created_at |-> 7]]}

ToUpper(s) == [i \in DOMAIN s |-> IF IsHexChar(s[i]) THEN UpperHex[HexVal(s[i]) + 1] ELSE s[i]]

\* the ids a client puts in the path: the ids of the stored items, the first id
\* the server assigns (stored, deleted or not yet assigned), the same id in
\* upper case between white space, and two malformed ids
PathIds(c) ==
    {Hex(c[i]._id) : i \in 1..Len(c)}
    \cup {Hex(NewObjectId(1, 1)),
          <<" ">> \o ToUpper(Hex(NewObjectId(1, 1))) \o <<"\n">>,
          <<"a", "b", "c">>,
          [i \in 1..24 |-> IF i = 24 THEN "g" ELSE "0"]}

NoRequest == [op |-> "none", id |-> <<>>, body |-> NotJson, up |-> TRUE, call |-> NoCall]

Request(op, id, body, up, call) ==
    [op |-> op, id |-> id, body |-> body, up |-> up, call |-> call]

Slots == 1..MaxInFlight

Idle ==
    [pc |-> "idle", op |-> "none", id |-> <<>>, body |-> NotJson, up |-> TRUE,
     oid |-> <<>>, now |-> ZeroTime, called |-> FALSE, err |-> ErrNone,
     resp |-> NoResponse]

(***************************************************************************)
(* The service handling one request at a time.                             *)
(***************************************************************************)
Init ==
    /\ variant \in Variants
    /\ coll = <<>>
    /\ objectIdCounter = 0
    /\ clock = 1
    /\ last = NoRequest
    /\ resp = NoResponse
    /\ reqs = [s \in Slots |-> Idle]

\* The handler of one request ran to its return: last and resp hold the request
\* and what the handler wrote until net/http finishes the request.
\* up is the outcome of the connection that the persistence call uses: a handler
\* that issues no call meets no failure of it.
Handled(op, id, body, up, out) ==
    /\ last = NoRequest
    /\ out.call = NoCall => up
    /\ coll' = out.coll
    /\ resp' = out.resp
    /\ last' = Request(op, id, body, up, out.call)
    /\ UNCHANGED <<variant, clock, reqs>>

fetchTodos(up) ==
    LET out == fetchTodosOut(variant, coll, up) IN
    /\ Handled("fetch", <<>>, NotJson, up, out)
    /\ UNCHANGED objectIdCounter

createTodo(body, up) ==
    LET out == createTodoOut(variant, coll, NewObjectId(clock, objectIdCounter + 1), clock,
                             body, up)
    IN
    /\ createTodoBuilds(body) => objectIdCounter < MaxObjectIds
    /\ objectIdCounter' = IF createTodoBuilds(body) THEN objectIdCounter + 1
                          ELSE objectIdCounter
    /\ Handled("create", <<>>, body, up, out)

updateTodo(id, body, up) ==
    LET out == updateTodoOut(variant, coll, id, body, up) IN
    /\ Handled("update", id, body, up, out)
    /\ UNCHANGED objectIdCounter

deleteTodo(id, up) ==
    LET out == deleteTodoOut(variant, coll, id, up) IN
    /\ Handled("delete", id, NotJson, up, out)
    /\ UNCHANGED objectIdCounter

\* net/http finishes the request after the handler returned
RequestDone ==
    /\ last # NoRequest
    /\ last' = NoRequest
    /\ resp' = NoResponse
    /\ UNCHANGED <<variant, coll, objectIdCounter, clock, reqs>>

\* time passes; only handlers read the clock, so it advances between requests
Tick ==
    /\ last = NoRequest
    /\ clock < MaxClock
    /\ clock' = clock + 1
    /\ UNCHANGED <<variant, coll, objectIdCounter, last, resp, reqs>>

Next ==
    \/ \E up \in BOOLEAN : fetchTodos(up)
    \/ \E body \in Bodies, up \in BOOLEAN : createTodo(body, up)
    \/ \E id \in PathIds(coll), body \in Bodies, up \in BOOLEAN : updateTodo(id, body, up)
    \/ \E id \in PathIds(coll), up \in BOOLEAN : deleteTodo(id, up)
    \/ RequestDone
    \/ Tick

Spec == Init /\ [][Next]_vars

(***************************************************************************)
(* Properties of the service handling one request at a time.               *)
(***************************************************************************)
ValidId(id) == IsObjectIdHex(TrimSpace(id))
Oid(id) == ObjectIdHex(TrimSpace(id))
Has(c, oid) == IndexOf(c, oid) # 0
DocOf(c, oid) == c[IndexOf(c, oid)]
\* the step is the handler of a request of kind op running to its return
Handles(op) == last = NoRequest /\ last'.op = op
BodyOk(body) == ~Decode(body).err /\ Decode(body).t.Title # ""

\* C1: a create request whose body parses, whose title is non-empty and whose
\* insert reaches the database appends exactly one document; its id differs from
\* every stored id, its title is the request's, completed is false whatever the
\* body supplied; the response is 201 with that id as todo_id; the documents
\* stored before are unchanged.
C1_CreateInsertsOne ==
    [][(Handles("create") /\ BodyOk(last'.body) /\ last'.up) =>
          /\ Len(coll') = Len(coll) + 1
          /\ SubSeq(coll', 1, Len(coll)) = coll
          /\ \A i \in 1..Len(coll) : coll[i]._id # coll'[Len(coll')]._id
          /\ coll'[Len(coll')].title = last'.body.obj.title
          /\ coll'[Len(coll')].completed = FALSE
          /\ resp'.written /\ resp'.status = StatusCreated
          /\ resp'.todo_id = Hex(coll'[Len(coll')]._id)]_vars

C1_Witness ==
    /\ last.op = "create" /\ resp.status = StatusCreated
    /\ "completed" \in DOMAIN last.body.obj /\ last.body.obj.completed
    /\ "id" \in DOMAIN last.body.obj /\ "created_at" \in DOMAIN last.body.obj
    /\ Len(coll) = 2

\* C2: an update of an existing item (valid id, parsable body, non-empty title)
\* leaves the item stored under the same id with the creation timestamp it had.
C2_UpdateKeepsCreatedAt ==
    [][(Handles("update") /\ ValidId(last'.id) /\ BodyOk(last'.body)
            /\ Has(coll, Oid(last'.id))) =>
          /\ Has(coll', Oid(last'.id))
          /\ todoModel(variant, DocOf(coll', Oid(last'.id))).CreatedAt
                = todoModel(variant, DocOf(coll, Oid(last'.id))).CreatedAt]_vars

\* C3: every path through updateTodo writes a response, and a success response
\* carries a confirmation message.
C3_UpdateAlwaysResponds ==
    last.op = "update" => (resp.written /\ (resp.status = StatusOK => resp.message # ""))

\* C4: an update whose path id is not a valid hex id is answered 400 before the
\* body is looked at, issues no persistence call and leaves the collection as
\* it was.
C4_UpdateInvalidId ==
    [][(Handles("update") /\ ~ValidId(last'.id)) =>
          /\ resp'.written /\ resp'.status = StatusBadRequest
          /\ last'.call = NoCall
          /\ coll' = coll]_vars

C4_Witness ==
    /\ last.op = "update" /\ ~ValidId(last.id) /\ last.body = NotJson
    /\ resp.status = StatusBadRequest /\ Len(coll) > 0

\* C5: a create request whose body parses and whose title is the empty string
\* is answered 400 and the collection is left as it was.
C5_CreateEmptyTitle ==
    [][(Handles("create") /\ ~Decode(last'.body).err
            /\ Decode(last'.body).t.Title = "") =>
          /\ resp'.written /\ resp'.status = StatusBadRequest
          /\ last'.call = NoCall
          /\ coll' = coll]_vars

C5_Witness ==
    /\ last.op = "create" /\ last.body.json /\ "title" \in DOMAIN last.body.obj
    /\ last.body.obj.title = "" /\ resp.status = StatusBadRequest /\ Len(coll) > 0

\* C6: deleting an existing item by its valid id, the database being reachable,
\* answers success and removes exactly that item: the id is gone, the count is
\* one lower and the other items are unchanged and in their order.
C6_DeleteRemovesOne ==
    [][(Handles("delete") /\ ValidId(last'.id) /\ Has(coll, Oid(last'.id))
            /\ last'.up) =>
          /\ resp'.written /\ resp'.status = StatusOK
          /\ resp'.message = "Todo deleted successfully"
          /\ ~Has(coll', Oid(last'.id))
          /\ Len(coll') = Len(coll) - 1
          /\ coll' = RemoveAt(coll, IndexOf(coll, Oid(last'.id)))]_vars

C6_Witness ==
    /\ last.op = "delete" /\ resp.status = StatusOK /\ Len(coll) = 1
    /\ objectIdCounter = 2 /\ ~Has(coll, Oid(last.id))

\* C7: deleting a well-formed id that matches no stored item is answered with
\* the processing-status error, never with the success confirmation, and the
\* collection is left as it was.
C7_DeleteMissingIsError ==
    [][(Handles("delete") /\ ValidId(last'.id) /\ ~Has(coll, Oid(last'.id))) =>
          /\ resp'.written /\ resp'.status = StatusProcessing
          /\ resp'.message = "Failed to delete todo"
          /\ coll' = coll]_vars

\* the id deleted was assigned by an earlier create, and the database is reachable
C7_Witness ==
    /\ last.op = "delete" /\ ValidId(last.id) /\ last.up
    /\ resp.status = StatusProcessing
    /\ \E now \in 1..clock, ctr \in 1..objectIdCounter : Oid(last.id) = NewObjectId(now, ctr)

\* C8 as stated: an update of a well-formed id that matches no stored item, with
\* a parsable body and a non-empty title, gets no error response and changes
\* nothing.
C8_UpdateMissingIsSilent ==
    [][(Handles("update") /\ ValidId(last'.id) /\ BodyOk(last'.body)
            /\ ~Has(coll, Oid(last'.id))) =>
          /\ resp'.status # StatusProcessing
          /\ coll' = coll]_vars

\* C8 amended: such an update is answered with the processing-status error
\* "Failed to update todo" and changes nothing.
C8_UpdateMissingIsError ==
    [][(Handles("update") /\ ValidId(last'.id) /\ BodyOk(last'.body)
            /\ ~Has(coll, Oid(last'.id))) =>
          /\ resp'.written /\ resp'.status = StatusProcessing
          /\ resp'.message = "Failed to update todo"
          /\ last'.call = "Update"
          /\ coll' = coll]_vars

C8_Witness ==
    /\ last.op = "update" /\ ValidId(last.id) /\ BodyOk(last.body) /\ last.up
    /\ ~Has(coll, Oid(last.id)) /\ resp.status = StatusProcessing /\ Len(coll) > 0

\* C9: every stored item has a non-empty title and no two stored items share
\* an id.
C9_StoredItemsValid ==
    /\ \A i \in 1..Len(coll) : coll[i].title # ""
    /\ \A i, j \in 1..Len(coll) : coll[i]._id = coll[j]._id => i = j

\* two items are stored, one of them rewritten by an update
C9_Witness ==
    /\ Len(coll) = 2
    /\ \E i \in 1..Len(coll) : DOMAIN coll[i] = {"_id", "title", "completed"}

(***************************************************************************)
(* The service handling requests concurrently: net/http runs each handler  *)
(* in a goroutine of its own.  A handler is three steps: what it does      *)
(* before its persistence call (Begin), the call itself, which the         *)
(* database executes atomically on the one document (Call), and the        *)
(* response it writes from the error returned (Reply).  A slot of reqs is  *)
(* one request, used once.                                                 *)
(***************************************************************************)
ConcRequests ==
    {Request("create", <<>>, [json |-> TRUE, obj |-> [title |-> "a"]], TRUE, NoCall),
     Request("update", Hex(NewObjectId(1, 1)), [json |-> TRUE, obj |-> [title |-> "a"]],
             TRUE, NoCall),
     Request("update", Hex(NewObjectId(1, 1)),
             [json |-> TRUE, obj |-> [title |-> "b", completed |-> TRUE]], TRUE, NoCall),
     Request("update", <<"a", "b", "c">>, NotJson, TRUE, NoCall),
     Request("delete", Hex(NewObjectId(1, 1)), NotJson, TRUE, NoCall)}

\* the handler of request r, run alone on collection c with the object id and
\* the time it drew
HandlerOut(v, c, r) ==
    IF r.op = "create" THEN createTodoOut(v, c, r.oid, r.now, r.body, r.up)
    ELSE IF r.op = "update" THEN updateTodoOut(v, c, r.id, r.body, r.up)
    ELSE deleteTodoOut(v, c, r.id, r.up)

\* the handler runs up to its persistence call, or to its return when the
\* validation fails
Begin(s, q) ==
    LET builds == q.op = "create" /\ createTodoBuilds(q.body)
        r == [Idle EXCEPT !.op = q.op, !.id = q.id, !.body = q.body, !.up = q.up,
                          !.oid = IF builds THEN NewObjectId(clock, objectIdCounter + 1)
                                  ELSE <<>>,
                          !.now = IF builds THEN clock ELSE ZeroTime]
        out == HandlerOut(variant, coll, r)
    IN
    /\ reqs[s].pc = "idle"
    /\ \A t \in Slots : t < s => reqs[t].pc # "idle"
    /\ builds => objectIdCounter < MaxObjectIds
    /\ objectIdCounter' = IF builds THEN objectIdCounter + 1 ELSE objectIdCounter
    /\ reqs' = [reqs EXCEPT ![s] =
                    IF out.call = NoCall
                    THEN [r EXCEPT !.pc = "done", !.resp = out.resp]
                    ELSE [r EXCEPT !.pc = "call"]]
    /\ UNCHANGED <<variant, coll, clock, last, resp>>

\* the persistence call of the handler
Call(s) ==
    LET r == reqs[s]
        res == IF r.op = "create"
               THEN Insert(coll, bsonDoc(variant, [ID |-> r.oid,
                                                   Title |-> Decode(r.body).t.Title,
                                                   Completed |-> FALSE,
                                                   CreatedAt |-> r.now]), r.up)
               ELSE IF r.op = "update"
               THEN Update(coll, ObjectIdHex(TrimSpace(r.id)), Decode(r.body).t.Title,
                           Decode(r.body).t.Completed, r.up)
               ELSE RemoveId(coll, ObjectIdHex(TrimSpace(r.id)), r.up)
    IN
    /\ r.pc = "call"
    /\ coll' = res.coll
    /\ reqs' = [reqs EXCEPT ![s] = [r EXCEPT !.pc = "reply", !.called = TRUE,
                                                !.err = res.err]]
    /\ UNCHANGED <<variant, objectIdCounter, clock, last, resp>>

\* the handler writes its response and returns
Reply(s) ==
    LET r == reqs[s] IN
    /\ r.pc = "reply"
    /\ reqs' = [reqs EXCEPT ![s] =
                    [r EXCEPT !.pc = "done",
                              !.resp = IF r.op = "create"
                                       THEN createTodoResponse(r.err, [ID |-> r.oid])
                                       ELSE IF r.op = "update"
                                       THEN updateTodoResponse(variant, r.err)
                                       ELSE deleteTodoResponse(r.err)]]
    /\ UNCHANGED <<variant, coll, objectIdCounter, clock, last, resp>>

ConcNext ==
    \/ \E s \in Slots, q \in ConcRequests : Begin(s, q)
    \/ \E s \in Slots : Call(s)
    \/ \E s \in Slots : Reply(s)

SpecConc == Init /\ [][ConcNext]_vars

\* the requests whose persistence call has been executed
Called == {s \in Slots : reqs[s].called}

\* TRUE when the handlers of the requests of D, run one after the other in some
\* order, each to its return, take collection c to collection final
RECURSIVE Serializes(_, _, _)
Serializes(D, c, final) ==
    IF D = {} THEN c = final
    ELSE \E s \in D : Serializes(D \ {s}, HandlerOut(variant, c, reqs[s]).coll, final)

\* document d is what the persistence call of request r writes
WrittenBy(d, r) ==
    \/ /\ r.op = "create"
       /\ d = bsonDoc(variant, [ID |-> r.oid, Title |-> Decode(r.body).t.Title,
                                Completed |-> FALSE, CreatedAt |-> r.now])
    \/ /\ r.op = "update"
       /\ d = [_id |-> Oid(r.id), title |-> Decode(r.body).t.Title,
               completed |-> Decode(r.body).t.Completed]

\* C10: under every interleaving of concurrent create, update and delete
\* requests the collection is the one that the requests whose persistence call
\* has been executed produce when run one after the other in some order, and
\* every stored document is the write of one single request: after two
\* concurrent updates of one id, title and completed come from the same request.
C10_Serializable ==
    /\ Serializes(Called, <<>>, coll)
    /\ \A i \in 1..Len(coll) : \E s \in Called : WrittenBy(coll[i], reqs[s])

\* two updates of the same stored id with different payloads were in flight
\* together and both have executed their persistence call
C10_Witness ==
    \E s, t \in Slots :
        /\ s # t
        /\ reqs[s].op = "update" /\ reqs[t].op = "update"
        /\ reqs[s].pc = "reply" /\ reqs[t].pc = "reply"
        /\ reqs[s].err = ErrNone /\ reqs[t].err = ErrNone
        /\ reqs[s].id = reqs[t].id /\ reqs[s].body # reqs[t].body
        /\ Has(coll, Oid(reqs[s].id))
====
